---- MODULE Spec2Model ----
(***************************************************************************)
(* txtflow (main.go): a bubbletea TUI that pipes the text read from stdin  *)
(* through the command line typed by the user.                             *)
(*                                                                         *)
(* Text is modelled as a sequence of atoms.  An atom of user text is one   *)
(* rune, or a run of ordinary letters such as "cat" (both scanners and     *)
(* TrimSpace treat a run of letters as they treat one letter); a fixed     *)
(* fragment of a message is one atom.  The empty string is << >>.          *)
(*                                                                         *)
(* Spec is the whole application, FairSpec the same with the scheduling of *)
(* commands and messages stated, SpecRun one execution on every bounded    *)
(* command line, SpecParse parsePipedCommands alone, and SpecGuarded the   *)
(* earlier variant (src/unnamed/part_001) that guards Enter by             *)
(* isProcessing.                                                           *)
(***************************************************************************)
EXTENDS Naturals, Sequences, FiniteSets, TLC

VARIABLES
    textInput,      \* model.textInput.Value()
    focused,        \* model.textInput.Focused()
    stdinContent,   \* model.stdinContent
    rawOutput,      \* model.rawOutput
    errorMessage,   \* model.errorMessage
    command,        \* model.command
    quitting,       \* model.quitting
    quitCmds,       \* tea.Quit commands returned by Update, QuitMsg not yet handled
    exited,         \* p.Run() has returned
    printed,        \* what main wrote to standard output after p.Run()
    stdinLines,     \* the lines bufio.Scanner will yield from os.Stdin
    isTerminal,     \* os.Stdin is a character device
    rdPos,          \* readStdin: number of lines already sent on the channel
    streamers,      \* outstanding streamStdin commands (goroutines blocked in <-ch)
    stdinMsgs,      \* stdinMsg values received from the channel, not yet handled by Update
    execs,          \* the commands returned by runCommand, in trigger order
    lastGood,       \* history: << output >> of the last successful result handled, or << >>
    nKeys,          \* number of key messages handled so far
    emitReq,        \* history: << text >> of the input at the last exitAndPrint key, or << >>
    cmdStr,         \* argument of a direct call of parsePipedCommands
    parsed,         \* its return value
    processedOutput,   \* guarded variant: model.processedOutput
    isProcessing,      \* guarded variant: model.isProcessing
    modelErr           \* guarded variant: model.err

vars == << textInput, focused, stdinContent, rawOutput, errorMessage, command,
           quitting, quitCmds, exited, printed, stdinLines, isTerminal, rdPos,
           streamers, stdinMsgs, execs, lastGood, nKeys, emitReq,
           cmdStr, parsed, processedOutput, isProcessing, modelErr >>

----------------------------------------------------------------------------
(* Bounds *)

MaxLen == 4        \* longest command line handed to parsePipedCommands / runCommand
MaxLines == 2      \* most lines on stdin
MaxKeys == 2       \* most key messages in one session
MaxExecs == 2      \* most commands runCommand returns in one session
MaxGuardedKeys == 3   \* most Enter and input keys in a session of the guarded variant

----------------------------------------------------------------------------
(* strings *)

WhiteSpace == {" ", "\n", "\t", "\r"}

RECURSIVE TrimLeft(_)
TrimLeft(s) == IF s # << >> /\ Head(s) \in WhiteSpace THEN TrimLeft(Tail(s)) ELSE s

RECURSIVE TrimRight(_)
TrimRight(s) ==
    IF s # << >> /\ s[Len(s)] \in WhiteSpace
    THEN TrimRight(SubSeq(s, 1, Len(s) - 1))
    ELSE s

\* strings.TrimSpace
TrimSpace(s) == TrimRight(TrimLeft(s))

\* strings.TrimSuffix(s, "\n")
TrimSuffix(s) ==
    IF s # << >> /\ s[Len(s)] = "\n" THEN SubSeq(s, 1, Len(s) - 1) ELSE s

RECURSIVE Concat(_)
Concat(ss) == IF ss = << >> THEN << >> ELSE Head(ss) \o Concat(Tail(ss))

Reverse(s) == [i \in 1..Len(s) |-> s[Len(s) + 1 - i]]

\* all sequences over S of length at most n
RECURSIVE SeqsUpTo(_, _)
SeqsUpTo(S, n) ==
    IF n = 0 THEN { << >> }
    ELSE LET shorter == SeqsUpTo(S, n - 1)
         IN  shorter \cup { Append(s, x) : s \in { t \in shorter : Len(t) = n - 1 }, x \in S }

----------------------------------------------------------------------------
(* parsePipedCommands *)

emptyRune == ""
backquote == "<backquote>"     \* the rune U+0060
QuoteRunes == {"'", "\"", backquote}
nil == << >>

ParseResult(commands, err) == [commands |-> commands, err |-> err]

RECURSIVE scanPiped(_, _, _, _, _)
scanPiped(s, i, commands, currentCommand, openQuote) ==
    IF i > Len(s)
    THEN LET cs == IF Len(currentCommand) > 0
                   THEN Append(commands, TrimSpace(currentCommand))
                   ELSE commands
         IN  IF openQuote # emptyRune
             THEN ParseResult(nil, <<"malformatted command string: unclose quote ", openQuote>>)
             ELSE ParseResult(cs, nil)
    ELSE LET r == s[i] IN
         IF r \in QuoteRunes
         THEN IF openQuote = emptyRune
              THEN scanPiped(s, i + 1, commands, Append(currentCommand, r), r)
              ELSE IF openQuote = r
              THEN scanPiped(s, i + 1, commands, Append(currentCommand, r), emptyRune)
              ELSE ParseResult(nil, <<"malformatted command string: mismatched quotes ",
                                      openQuote, " & ", r>>)
         ELSE IF r = "|"
         THEN IF openQuote = emptyRune
              THEN scanPiped(s, i + 1, Append(commands, TrimSpace(currentCommand)),
                             << >>, openQuote)
              ELSE scanPiped(s, i + 1, commands, Append(currentCommand, r), openQuote)
         ELSE scanPiped(s, i + 1, commands, Append(currentCommand, r), openQuote)

\* variant: a separator inside a quote span is dropped from the segment text
parsePipedCommands_dropQuoted(s) ==
    LET p == scanPiped(s, 1, << >>, << >>, emptyRune) IN
    ParseResult([k \in 1..Len(p.commands) |-> SelectSeq(p.commands[k], LAMBDA r : r # "|")],
                p.err)

\* variant: a span still open at the end of the line is not reported
parsePipedCommands_lenient(s) ==
    LET p == scanPiped(s, 1, << >>, << >>, emptyRune) IN
    IF p.err # nil /\ p.err[1] = "malformatted command string: unclose quote "
    THEN ParseResult(<< TrimSpace(s) >>, nil)
    ELSE p

parsePipedCommands(s) == scanPiped(s, 1, << >>, << >>, emptyRune)

----------------------------------------------------------------------------
(* shlex.Split (github.com/google/shlex), called at main.go:470 *)

SplitResult(parts, err) == [parts |-> parts, err |-> err]

RECURSIVE shlexScan(_, _, _, _, _)
shlexScan(s, i, state, value, parts) ==
    IF i > Len(s)
    THEN CASE state = "start" -> SplitResult(parts, nil)
           [] state = "inWord" -> SplitResult(Append(parts, value), nil)
           [] state = "comment" -> SplitResult(parts, nil)
           [] state \in {"escaping", "escapingQuoted"} ->
                  SplitResult(parts, <<"EOF found after escape character">>)
           [] OTHER -> SplitResult(parts, <<"EOF found when expecting closing quote">>)
    ELSE LET r == s[i] IN
         CASE state = "start" ->
                  IF r \in WhiteSpace THEN shlexScan(s, i + 1, "start", << >>, parts)
                  ELSE IF r = "\"" THEN shlexScan(s, i + 1, "quotingEscaping", << >>, parts)
                  ELSE IF r = "'" THEN shlexScan(s, i + 1, "quoting", << >>, parts)
                  ELSE IF r = "\\" THEN shlexScan(s, i + 1, "escaping", << >>, parts)
                  ELSE IF r = "#" THEN shlexScan(s, i + 1, "comment", << >>, parts)
                  ELSE shlexScan(s, i + 1, "inWord", <<r>>, parts)
           [] state = "inWord" ->
                  IF r \in WhiteSpace THEN shlexScan(s, i + 1, "start", << >>, Append(parts, value))
                  ELSE IF r = "\"" THEN shlexScan(s, i + 1, "quotingEscaping", value, parts)
                  ELSE IF r = "'" THEN shlexScan(s, i + 1, "quoting", value, parts)
                  ELSE IF r = "\\" THEN shlexScan(s, i + 1, "escaping", value, parts)
                  ELSE shlexScan(s, i + 1, "inWord", Append(value, r), parts)
           [] state = "escaping" -> shlexScan(s, i + 1, "inWord", Append(value, r), parts)
           [] state = "escapingQuoted" ->
                  shlexScan(s, i + 1, "quotingEscaping", Append(value, r), parts)
           [] state = "quotingEscaping" ->
                  IF r = "\"" THEN shlexScan(s, i + 1, "inWord", value, parts)
                  ELSE IF r = "\\" THEN shlexScan(s, i + 1, "escapingQuoted", value, parts)
                  ELSE shlexScan(s, i + 1, "quotingEscaping", Append(value, r), parts)
           [] state = "quoting" ->
                  IF r = "'" THEN shlexScan(s, i + 1, "inWord", value, parts)
                  ELSE shlexScan(s, i + 1, "quoting", Append(value, r), parts)
           [] OTHER ->   \* comment
                  IF r = "\n" THEN shlexScan(s, i + 1, "start", << >>, parts)
                  ELSE shlexScan(s, i + 1, "comment", value, parts)

shlexSplit(s) == shlexScan(s, 1, "start", << >>, << >>)

\* fmt's rendering of an error under %s
ErrText(err) == IF err = nil THEN <<"%!s(<nil>)">> ELSE err

----------------------------------------------------------------------------
(* exec.Command(parts[0], parts[1:]...).Run() with stdin, stdout and stderr  *)
(* buffers (main.go:477-485).  The programs on PATH are cat, tac and false; *)
(* no file named by an argument exists.                                     *)

\* the lines of a text, each without its terminator
RECURSIVE SplitLines(_, _)
SplitLines(s, cur) ==
    IF s = << >> THEN (IF cur = << >> THEN << >> ELSE <<cur>>)
    ELSE IF Head(s) = "\n" THEN <<cur>> \o SplitLines(Tail(s), << >>)
    ELSE SplitLines(Tail(s), Append(cur, Head(s)))

JoinLines(ls) == Concat([i \in 1..Len(ls) |-> Append(ls[i], "\n")])

NoSuchFile(name, args) ==
    Concat([i \in 1..Len(args) |->
              <<name, ": ">> \o args[i] \o <<": No such file or directory", "\n">>])

ProcResult(err, stdout, stderr) == [err |-> err, stdout |-> stdout, stderr |-> stderr]

RunProgram(parts, input) ==
    LET name == parts[1]
        args == Tail(parts)
    IN  IF name = <<"false">> THEN ProcResult(<<"exit status 1">>, << >>, << >>)
        ELSE IF name \in {<<"cat">>, <<"tac">>}
        THEN IF args # << >>
             THEN ProcResult(<<"exit status 1">>, << >>, NoSuchFile(name[1], args))
             ELSE IF name = <<"cat">> THEN ProcResult(nil, input, << >>)
             ELSE ProcResult(nil, JoinLines(Reverse(SplitLines(input, << >>))), << >>)
        ELSE IF name = << >> THEN ProcResult(<<"exec: no command">>, << >>, << >>)
        ELSE ProcResult(<<"exec: \"">> \o name \o <<"\": executable file not found in $PATH">>,
                        << >>, << >>)

----------------------------------------------------------------------------
(* runCommand: the closure it returns, run by bubbletea in its own goroutine *)

\* the command returned by runCommand; m is the copy of the model it captured
NewExec(cmd, stdin, src) ==
    [cmd |-> cmd, stdin |-> stdin, src |-> src, pc |-> "start",
     commands |-> << >>, idx |-> 0, lastOutput |-> << >>, stages |-> << >>,
     kind |-> "none", msg |-> [output |-> << >>, errorMessage |-> << >>]]

\* variant: the closure ends without handing a message to the program
Return_lost(x, kind, output, errMsg) ==
    [x EXCEPT !.pc = "lost", !.kind = kind,
              !.msg = [output |-> output, errorMessage |-> errMsg]]

\* return commandResultMsg{output, errorMessage}
Return(x, kind, output, errMsg) ==
    [x EXCEPT !.pc = "done", !.kind = kind,
              !.msg = [output |-> output, errorMessage |-> errMsg]]

\* one pass of the for loop from its head to cmd.Run(), or the return after the loop
LoopIter(x) ==
    IF x.idx > Len(x.commands)
    THEN Return(x, "Output", x.lastOutput, << >>)
    ELSE LET cmdSegment == TrimSpace(x.commands[x.idx])
             sp == shlexSplit(cmdSegment)
         IN  IF cmdSegment = << >>
             THEN Return(x, "Failure", << >>, <<"Syntax error: missing command between pipes">>)
             ELSE IF sp.err # nil \/ Len(sp.parts) = 0
             THEN Return(x, "Failure", << >>,
                         <<"Failed to parse command ">> \o cmdSegment \o <<": ">> \o ErrText(sp.err))
             ELSE [x EXCEPT !.pc = "running",
                            !.stages = Append(@, [segment |-> cmdSegment, parts |-> sp.parts,
                                                  input |-> x.lastOutput, exited |-> FALSE,
                                                  err |-> nil, output |-> << >>])]

\* variant: the blank command line returns the command text, not the stdin content
runCommandBegin_cmdText(x) ==
    LET trimmedCmdStr == TrimSpace(x.cmd) IN
    IF trimmedCmdStr = << >>
    THEN Return(x, "Output", x.cmd, << >>)
    ELSE LET p == parsePipedCommands(trimmedCmdStr) IN
         IF p.err # nil
         THEN Return(x, "Failure", << >>, p.err)
         ELSE LoopIter([x EXCEPT !.commands = p.commands, !.idx = 1, !.lastOutput = x.stdin])

\* from the start of the closure to the first cmd.Run() or return
runCommandBegin(x) ==
    LET trimmedCmdStr == TrimSpace(x.cmd) IN
    IF trimmedCmdStr = << >>
    THEN Return(x, "Output", x.stdin, << >>)
    ELSE LET p == parsePipedCommands(trimmedCmdStr) IN
         IF p.err # nil
         THEN Return(x, "Failure", << >>, p.err)
         ELSE LoopIter([x EXCEPT !.commands = p.commands, !.idx = 1, !.lastOutput = x.stdin])

\* variant: lastOutput = output is missing, every stage reads the stdin content
runCommandResume_keepInput(x) ==
    LET k == Len(x.stages)
        st == x.stages[k]
        r == RunProgram(st.parts, st.input)
        y == [x EXCEPT !.stages[k].exited = TRUE, !.stages[k].err = r.err,
                       !.stages[k].output = r.stdout]
    IN  IF r.err # nil
        THEN Return(y, "Failure", << >>,
                    <<"Error: Command '">> \o st.segment \o <<"' failed. ">>
                        \o (IF Len(r.stderr) > 0 THEN TrimSpace(r.stderr) ELSE r.err))
        ELSE LoopIter([y EXCEPT !.idx = @ + 1])

\* variant: the error of cmd.Run() is not checked
runCommandResume_ignoreErr(x) ==
    LET k == Len(x.stages)
        st == x.stages[k]
        r == RunProgram(st.parts, st.input)
        y == [x EXCEPT !.stages[k].exited = TRUE, !.stages[k].err = r.err,
                       !.stages[k].output = r.stdout]
    IN  LoopIter([y EXCEPT !.lastOutput = r.stdout, !.idx = @ + 1])

\* cmd.Run() returns: the error branch, or lastOutput = output and the next pass
runCommandResume(x) ==
    LET k == Len(x.stages)
        st == x.stages[k]
        r == RunProgram(st.parts, st.input)
        y == [x EXCEPT !.stages[k].exited = TRUE, !.stages[k].err = r.err,
                       !.stages[k].output = r.stdout]
    IN  IF r.err # nil
        THEN Return(y, "Failure", << >>,
                    <<"Error: Command '">> \o st.segment \o <<"' failed. ">>
                        \o (IF Len(r.stderr) > 0 THEN TrimSpace(r.stderr) ELSE r.err))
        ELSE LoopIter([y EXCEPT !.lastOutput = r.stdout, !.idx = @ + 1])

----------------------------------------------------------------------------
(* the control loop: model.Update and what it calls *)

uiVars == << textInput, focused, command, quitting, quitCmds, nKeys, emitReq >>
outVars == << rawOutput, errorMessage, lastGood >>
endVars == << exited, printed >>
inVars == << stdinLines, isTerminal, rdPos >>
parseVars == << cmdStr, parsed >>
guardVars == << processedOutput, isProcessing, modelErr >>

\* variant: a result with an error message also replaces the output
handleCommandResultMsg_blank(m, msg) ==
    IF msg.errorMessage # << >>
    THEN [m EXCEPT !.rawOutput = TrimSuffix(msg.output), !.errorMessage = msg.errorMessage]
    ELSE [m EXCEPT !.rawOutput = TrimSuffix(msg.output), !.errorMessage = << >>]

\* handleCommandResultMsg (with updateOutput) on the fields it assigns
handleCommandResultMsg(m, msg) ==
    IF msg.errorMessage # << >>
    THEN [m EXCEPT !.errorMessage = msg.errorMessage]
    ELSE [m EXCEPT !.rawOutput = TrimSuffix(msg.output), !.errorMessage = << >>]

\* variant: handling a successful result clears the input
UpdateCommandResult_clearInput(i) ==
    /\ ~exited
    /\ execs[i].pc = "done"
    /\ LET m == handleCommandResultMsg([rawOutput |-> rawOutput, errorMessage |-> errorMessage],
                                       execs[i].msg)
       IN  /\ rawOutput' = m.rawOutput
           /\ errorMessage' = m.errorMessage
    /\ execs' = [execs EXCEPT ![i].pc = "delivered"]
    /\ lastGood' = IF execs[i].kind = "Output" THEN << execs[i].msg.output >> ELSE lastGood
    /\ textInput' = IF execs[i].kind = "Output" THEN << >> ELSE textInput
    /\ UNCHANGED << focused, command, quitting, quitCmds, nKeys, emitReq, endVars, inVars,
                    parseVars, guardVars, stdinContent, streamers, stdinMsgs >>

\* Update, case commandResultMsg: the result of execs[i] reaches the control loop
UpdateCommandResult(i) ==
    /\ ~exited
    /\ execs[i].pc = "done"
    /\ LET m == handleCommandResultMsg([rawOutput |-> rawOutput, errorMessage |-> errorMessage],
                                       execs[i].msg)
       IN  /\ rawOutput' = m.rawOutput
           /\ errorMessage' = m.errorMessage
    /\ execs' = [execs EXCEPT ![i].pc = "delivered"]
    /\ lastGood' = IF execs[i].kind = "Output" THEN << execs[i].msg.output >> ELSE lastGood
    /\ UNCHANGED << uiVars, endVars, inVars, parseVars, guardVars, stdinContent,
                    streamers, stdinMsgs >>

\* the goroutine of execs[i] runs from the start of the closure to its first
\* cmd.Run() or to its return
RunStart(i) ==
    /\ ~exited
    /\ execs[i].pc = "start"
    /\ execs' = [execs EXCEPT ![i] = runCommandBegin(@)]
    /\ UNCHANGED << uiVars, outVars, endVars, inVars, parseVars, guardVars, stdinContent,
                    streamers, stdinMsgs >>

\* the process of the current stage of execs[i] ends and cmd.Run() returns
StageExit(i) ==
    /\ ~exited
    /\ execs[i].pc = "running"
    /\ execs' = [execs EXCEPT ![i] = runCommandResume(@)]
    /\ UNCHANGED << uiVars, outVars, endVars, inVars, parseVars, guardVars, stdinContent,
                    streamers, stdinMsgs >>

\* the whole closure: every stage in turn until a return
RECURSIVE runToReturn(_)
runToReturn(x) == IF x.pc = "running" THEN runToReturn(runCommandResume(x)) ELSE x

\* variant: the closure reads the stdin content the control loop holds when
\* the goroutine runs
RunCommand_live(i) ==
    /\ ~exited
    /\ execs[i].pc = "start"
    /\ execs' = [execs EXCEPT
                   ![i] = runToReturn(runCommandBegin([@ EXCEPT !.stdin = stdinContent]))]
    /\ UNCHANGED << uiVars, outVars, endVars, inVars, parseVars, guardVars, stdinContent,
                    streamers, stdinMsgs >>

\* the goroutine of execs[i] runs the closure from its start to its return; the
\* closure reads and writes nothing but its own variables and the captured copy
RunCommand(i) ==
    /\ ~exited
    /\ execs[i].pc = "start"
    /\ execs' = [execs EXCEPT ![i] = runToReturn(runCommandBegin(@))]
    /\ UNCHANGED << uiVars, outVars, endVars, inVars, parseVars, guardVars, stdinContent,
                    streamers, stdinMsgs >>

\* readStdin has executed close(ch): at once on a terminal, else when
\* scanner.Scan() fails after the last line was sent
chClosed == isTerminal \/ rdPos = Len(stdinLines)

\* ch <- stdinMsg{ch, scanner.Text()} meets the <-ch of a streamStdin command
StreamStdinLine ==
    /\ ~exited
    /\ ~isTerminal /\ ~chClosed
    /\ rdPos < Len(stdinLines)
    /\ streamers > 0
    /\ rdPos' = rdPos + 1
    /\ streamers' = streamers - 1
    /\ stdinMsgs' = Append(stdinMsgs, [ch |-> TRUE, line |-> stdinLines[rdPos + 1]])
    /\ UNCHANGED << uiVars, outVars, endVars, parseVars, guardVars, stdinLines, isTerminal,
                    stdinContent, execs >>

\* <-ch on the closed channel yields the zero stdinMsg
StreamStdinClosed ==
    /\ ~exited
    /\ chClosed
    /\ streamers > 0
    /\ streamers' = streamers - 1
    /\ stdinMsgs' = Append(stdinMsgs, [ch |-> FALSE, line |-> << >>])
    /\ UNCHANGED << uiVars, outVars, endVars, inVars, parseVars, guardVars, stdinContent,
                    execs >>

RemoveAt(s, j) == SubSeq(s, 1, j - 1) \o SubSeq(s, j + 1, Len(s))

\* variant: the zero message of the closed channel is handled as a chunk
UpdateStdinMsg_closeAsChunk(j) ==
    /\ ~exited
    /\ j \in 1..Len(stdinMsgs)
    /\ Len(execs) < MaxExecs
    /\ stdinMsgs' = RemoveAt(stdinMsgs, j)
    /\ stdinContent' = stdinContent \o stdinMsgs[j].line \o <<"\n">>
    /\ errorMessage' = << >>
    /\ streamers' = streamers + 1
    /\ execs' = Append(execs, NewExec(textInput, stdinContent', "chunk"))
    /\ UNCHANGED << uiVars, endVars, inVars, parseVars, guardVars, rawOutput, lastGood >>

\* Update, case stdinMsg
UpdateStdinMsg(j) ==
    /\ ~exited
    /\ j \in 1..Len(stdinMsgs)
    /\ (stdinMsgs[j].line # << >> /\ stdinMsgs[j].ch) => Len(execs) < MaxExecs
    /\ stdinMsgs' = RemoveAt(stdinMsgs, j)
    /\ IF stdinMsgs[j].line # << >> /\ stdinMsgs[j].ch
       THEN /\ stdinContent' = stdinContent \o stdinMsgs[j].line \o <<"\n">>
            /\ errorMessage' = << >>
            /\ streamers' = streamers + 1
            /\ execs' = Append(execs, NewExec(textInput, stdinContent', "chunk"))
       ELSE UNCHANGED << stdinContent, errorMessage, streamers, execs >>
    /\ UNCHANGED << uiVars, endVars, inVars, parseVars, guardVars, rawOutput, lastGood >>

KeyFrame == << endVars, inVars, parseVars, guardVars, stdinContent, streamers, stdinMsgs,
               rawOutput, lastGood >>

\* handleKeyMsg, forceExit
KeyCtrlC ==
    /\ ~exited /\ nKeys < MaxKeys
    /\ nKeys' = nKeys + 1
    /\ quitting' = TRUE
    /\ quitCmds' = quitCmds + 1
    /\ UNCHANGED << KeyFrame, textInput, focused, command, errorMessage, execs, emitReq >>

\* handleKeyMsg, exitAndPrint
KeyCtrlX ==
    /\ ~exited /\ nKeys < MaxKeys
    /\ nKeys' = nKeys + 1
    /\ command' = textInput
    /\ emitReq' = << textInput >>
    /\ quitting' = TRUE
    /\ quitCmds' = quitCmds + 1
    /\ UNCHANGED << KeyFrame, textInput, focused, errorMessage, execs >>

\* handleKeyMsg, enter
KeyEnter ==
    /\ ~exited /\ nKeys < MaxKeys
    /\ nKeys' = nKeys + 1
    /\ focused' = FALSE
    /\ UNCHANGED << KeyFrame, textInput, command, quitting, quitCmds, errorMessage, execs,
                    emitReq >>

\* handleKeyMsg, esc
KeyEsc ==
    /\ ~exited /\ nKeys < MaxKeys
    /\ nKeys' = nKeys + 1
    /\ textInput' = << >>
    /\ focused' = FALSE
    /\ UNCHANGED << KeyFrame, command, quitting, quitCmds, errorMessage, execs, emitReq >>

\* handleKeyMsg, tab
KeyTab ==
    /\ ~exited /\ nKeys < MaxKeys
    /\ nKeys' = nKeys + 1
    /\ focused' = ~focused
    /\ UNCHANGED << KeyFrame, textInput, command, quitting, quitCmds, errorMessage, execs,
                    emitReq >>

\* the runes one key message can carry (typed, or pasted at once)
KeyRunes == { <<"cat">>, <<"'">>, <<"#">> }

\* handleKeyMsg, default branch with the input focused: textInput.Update appends
\* the runes at the cursor, which stays at the end of the text
KeyInput(rs) ==
    /\ ~exited /\ nKeys < MaxKeys
    /\ focused
    /\ Len(execs) < MaxExecs
    /\ nKeys' = nKeys + 1
    /\ textInput' = textInput \o rs
    /\ errorMessage' = << >>
    /\ execs' = Append(execs, NewExec(textInput', stdinContent, "key"))
    /\ UNCHANGED << KeyFrame, focused, command, quitting, quitCmds, emitReq >>

\* handleKeyMsg, default branch with the output pane focused
KeyViewport ==
    /\ ~exited /\ nKeys < MaxKeys
    /\ ~focused
    /\ nKeys' = nKeys + 1
    /\ \/ /\ quitting' = TRUE                       \* q
          /\ quitCmds' = quitCmds + 1
          /\ UNCHANGED errorMessage
       \/ /\ errorMessage' \in { errorMessage,      \* y: clipboard.WriteAll may fail
                                 <<"Failed to copy to clipboard: ", "error">> }
          /\ UNCHANGED << quitting, quitCmds >>
    /\ UNCHANGED << KeyFrame, textInput, focused, command, execs, emitReq >>

\* variant: main prints the text of the input whichever key ended the session
HandleQuitMsg_always ==
    /\ ~exited
    /\ quitCmds > 0
    /\ exited' = TRUE
    /\ printed' = IF textInput # << >> THEN textInput \o <<"\n">> ELSE << >>
    /\ UNCHANGED << uiVars, outVars, inVars, parseVars, guardVars, stdinContent,
                    streamers, stdinMsgs, execs >>

\* the event loop receives the QuitMsg; p.Run() returns and main prints
HandleQuitMsg ==
    /\ ~exited
    /\ quitCmds > 0
    /\ exited' = TRUE
    /\ printed' = IF command # << >> THEN command \o <<"\n">> ELSE << >>
    /\ UNCHANGED << uiVars, outVars, inVars, parseVars, guardVars, stdinContent,
                    streamers, stdinMsgs, execs >>

ModelInit ==
    /\ textInput = << >>
    /\ focused = TRUE
    /\ stdinContent = << >>
    /\ rawOutput = << >>
    /\ errorMessage = << >>
    /\ command = << >>
    /\ quitting = FALSE
    /\ quitCmds = 0
    /\ exited = FALSE
    /\ printed = << >>
    /\ emitReq = << >>
    /\ processedOutput = << >>
    /\ isProcessing = FALSE
    /\ modelErr = << >>

NotParsed == [called |-> FALSE, commands |-> << >>, err |-> nil]

Lines == { << >>, <<"a">>, <<"b">> }

\* initModel, model.Init and the start of tea.Program.Run
Init ==
    /\ ModelInit
    /\ isTerminal \in BOOLEAN
    /\ stdinLines \in (IF isTerminal THEN { << >> } ELSE SeqsUpTo(Lines, MaxLines))
    /\ rdPos = 0
    /\ streamers = 1
    /\ stdinMsgs = << >>
    /\ execs = << >>
    /\ lastGood = << >>
    /\ nKeys = 0
    /\ cmdStr = << >>
    /\ parsed = NotParsed

Next ==
    \/ KeyCtrlC
    \/ KeyCtrlX
    \/ KeyEnter
    \/ KeyEsc
    \/ KeyTab
    \/ \E rs \in KeyRunes : KeyInput(rs)
    \/ KeyViewport
    \/ HandleQuitMsg
    \/ StreamStdinLine
    \/ StreamStdinClosed
    \/ \E j \in 1..Len(stdinMsgs) : UpdateStdinMsg(j)
    \/ \E i \in 1..Len(execs) : RunCommand(i)
    \/ \E i \in 1..Len(execs) : UpdateCommandResult(i)

Spec == Init /\ [][Next]_vars

\* RunCommand(i) can be taken: it always changes execs[i].pc, so this is
\* ENABLED <<RunCommand(i)>>_vars
RunCommandEnabled(i) == ~exited /\ i <= Len(execs) /\ execs[i].pc = "start"

\* bubbletea runs every command in a goroutine of its own and its event loop
\* handles every message sent to it for as long as the program has not ended;
\* the processes spawned are taken to end.  The condition on RunCommand is
\* WF_vars(RunCommand(i)) with its ENABLED written out as above.
Fairness ==
    \A i \in 1..MaxExecs :
        /\ WF_vars(i <= Len(execs) /\ UpdateCommandResult(i))
        /\ \/ []<>~RunCommandEnabled(i)
           \/ []<><<i <= Len(execs) /\ RunCommand(i)>>_vars

\* the sessions of Init whose stdin is a terminal or holds the one line "a"
InitFair == Init /\ stdinLines \in { << >>, << <<"a">> >> }

FairSpec == InitFair /\ [][Next]_vars /\ Fairness

----------------------------------------------------------------------------
(* one execution on every bounded command line: the session has ingested    *)
(* all of stdin with the input empty and shown it, and a key message has    *)
(* just put the command line into the input                                 *)

CmdAlphabet == {"cat", "tac", "false", " ", "|", "'", "\"", "#"}
CmdLines == SeqsUpTo(CmdAlphabet, MaxLen)

\* the command the k-th chunk triggered, after Update has handled its result
ChunkExecDone(ls, k) ==
    [runToReturn(runCommandBegin(NewExec(<< >>, JoinLines(SubSeq(ls, 1, k)), "chunk")))
        EXCEPT !.pc = "delivered"]

InitRun ==
    /\ isTerminal = FALSE
    /\ stdinLines \in SeqsUpTo(Lines \ { << >> }, MaxLines)
    /\ rdPos = Len(stdinLines)
    /\ streamers = 0
    /\ stdinMsgs = << >>
    /\ stdinContent = JoinLines(stdinLines)
    /\ rawOutput = TrimSuffix(stdinContent)
    /\ lastGood = IF stdinLines = << >> THEN << >> ELSE << stdinContent >>
    /\ errorMessage = << >>
    /\ textInput \in CmdLines
    /\ focused = TRUE
    /\ command = << >>
    /\ quitting = FALSE
    /\ quitCmds = 0
    /\ exited = FALSE
    /\ printed = << >>
    /\ nKeys = 1
    /\ emitReq = << >>
    /\ processedOutput = << >>
    /\ isProcessing = FALSE
    /\ modelErr = << >>
    /\ execs = [k \in 1..Len(stdinLines) |-> ChunkExecDone(stdinLines, k)]
                  \o << NewExec(textInput, stdinContent, "key") >>
    /\ cmdStr = << >>
    /\ parsed = NotParsed

NextRun ==
    \/ \E i \in 1..Len(execs) : RunStart(i)
    \/ \E i \in 1..Len(execs) : StageExit(i)
    \/ \E i \in 1..Len(execs) : UpdateCommandResult(i)

SpecRun == InitRun /\ [][NextRun]_vars

----------------------------------------------------------------------------
(* direct calls of parsePipedCommands on every bounded command line *)

ParseCall ==
    /\ ~parsed.called
    /\ parsed' = [called |-> TRUE,
                  commands |-> parsePipedCommands(cmdStr).commands,
                  err |-> parsePipedCommands(cmdStr).err]
    /\ UNCHANGED << textInput, focused, stdinContent, rawOutput, errorMessage, command,
                    quitting, quitCmds, exited, printed, stdinLines, isTerminal, rdPos,
                    streamers, stdinMsgs, execs, lastGood, nKeys, emitReq,
                    cmdStr, guardVars >>

\* the command line of the round-trip example
ExampleLines == { <<"grep", " ", "'", "a", "|", "b", "'", " ", "|", " ", "wc", " ", "-l">> }

InitParse ==
    /\ ModelInit
    /\ stdinLines = << >>
    /\ isTerminal = TRUE
    /\ rdPos = 0
    /\ streamers = 0
    /\ stdinMsgs = << >>
    /\ execs = << >>
    /\ lastGood = << >>
    /\ nKeys = 0
    /\ cmdStr \in CmdLines \cup ExampleLines
    /\ parsed = NotParsed

NextParse == ParseCall

SpecParse == InitParse /\ [][NextParse]_vars

----------------------------------------------------------------------------
(* the guarded variant (src/unnamed/part_001): stdin is read whole by       *)
(* initModel, Enter starts an execution unless one is being processed, and  *)
(* the result carries the Go error beside the message                       *)

\* commandResultMsg{output, errorMessage, rawError}
GuardedMsg(output, errMsg, rawError) ==
    [output |-> output, errorMessage |-> errMsg, rawError |-> rawError]

\* strings.Split(s, "|"), cur being the piece under construction
RECURSIVE stringsSplit(_, _)
stringsSplit(s, cur) ==
    IF s = << >> THEN <<cur>>
    ELSE IF Head(s) = "|" THEN <<cur>> \o stringsSplit(Tail(s), << >>)
    ELSE stringsSplit(Tail(s), Append(cur, Head(s)))

\* the for loop of runCommand from segment k on
RECURSIVE guardedStages(_, _, _)
guardedStages(commands, k, lastOutput) ==
    IF k > Len(commands)
    THEN GuardedMsg(lastOutput, << >>, nil)
    ELSE LET cmdSegment == TrimSpace(commands[k])
             sp == shlexSplit(cmdSegment)
         IN  IF cmdSegment = << >>
             THEN GuardedMsg(<< >>, <<"Syntax error: missing command between pipes">>, nil)
             ELSE IF sp.err # nil \/ Len(sp.parts) = 0
             THEN GuardedMsg(<< >>,
                             <<"Failed to parse command ">> \o cmdSegment \o <<": ">>
                                 \o ErrText(sp.err),
                             sp.err)
             ELSE LET r == RunProgram(sp.parts, lastOutput) IN
                  IF r.err # nil
                  THEN GuardedMsg(<< >>,
                                  <<"Error: Command '">> \o cmdSegment \o <<"' failed. ">>
                                      \o (IF Len(r.stderr) > 0 THEN TrimSpace(r.stderr)
                                          ELSE r.err),
                                  r.err)
                  ELSE guardedStages(commands, k + 1, r.stdout)

\* the closure returned by runCommand(cmdStr, stdinContent)
guardedRunCommand(cmdStr_, stdin) ==
    LET trimmedCmdStr == TrimSpace(cmdStr_) IN
    IF trimmedCmdStr = << >>
    THEN GuardedMsg(stdin, << >>, nil)
    ELSE guardedStages(stringsSplit(trimmedCmdStr, << >>), 1, stdin)

GuardedExec(cmd, stdin) ==
    [cmd |-> cmd, stdin |-> stdin, pc |-> "start", msg |-> GuardedMsg(<< >>, << >>, nil)]

\* variant: a result that carries an error leaves isProcessing set
guardedHandleCommandResultMsg_stuck(m, msg) ==
    LET n == [m EXCEPT !.isProcessing = (msg.rawError # nil), !.focused = TRUE] IN
    IF msg.rawError # nil
    THEN [n EXCEPT !.errorMessage = msg.errorMessage, !.err = msg.rawError]
    ELSE [n EXCEPT !.processedOutput = msg.output, !.errorMessage = << >>, !.err = nil]

\* handleCommandResultMsg of the guarded variant
guardedHandleCommandResultMsg(m, msg) ==
    LET n == [m EXCEPT !.isProcessing = FALSE, !.focused = TRUE] IN
    IF msg.rawError # nil
    THEN [n EXCEPT !.errorMessage = msg.errorMessage, !.err = msg.rawError]
    ELSE [n EXCEPT !.processedOutput = msg.output, !.errorMessage = << >>, !.err = nil]

GuardedFrame == << endVars, inVars, parseVars, stdinContent, streamers, stdinMsgs, rawOutput,
                   lastGood, command, quitting, quitCmds, emitReq >>

\* handleKeyMsg, KeyEnter
GuardedKeyEnter ==
    /\ ~exited /\ nKeys < MaxGuardedKeys
    /\ nKeys' = nKeys + 1
    /\ IF isProcessing
       THEN UNCHANGED << errorMessage, modelErr, isProcessing, focused, execs >>
       ELSE /\ Len(execs) < MaxExecs
            /\ errorMessage' = << >>
            /\ modelErr' = nil
            /\ isProcessing' = TRUE
            /\ focused' = FALSE
            /\ execs' = Append(execs, GuardedExec(textInput, stdinContent))
    /\ UNCHANGED << GuardedFrame, textInput, processedOutput >>

Backspace == << "<backspace>" >>

\* the keys of the default branch: runes typed or pasted, backspace, and (the
\* empty sequence) a key the input does not act on
GuardedKeys == { <<"cat">>, <<"false">>, <<"|">>, <<"#">>, Backspace, << >> }

\* textinput.Model.Update: nothing while blurred; the cursor stays at the end
textInputUpdate(text, isFocused, key) ==
    IF ~isFocused THEN text
    ELSE IF key = Backspace
    THEN (IF text = << >> THEN text ELSE SubSeq(text, 1, Len(text) - 1))
    ELSE text \o key

\* handleKeyMsg, default branch
GuardedKeyDefault(key) ==
    /\ ~exited /\ nKeys < MaxGuardedKeys
    /\ nKeys' = nKeys + 1
    /\ textInput' = textInputUpdate(textInput, focused, key)
    /\ IF textInput' = << >> /\ ~isProcessing
       THEN /\ processedOutput' = stdinContent
            /\ errorMessage' = << >>
            /\ modelErr' = nil
       ELSE UNCHANGED << processedOutput, errorMessage, modelErr >>
    /\ UNCHANGED << GuardedFrame, focused, isProcessing, execs >>

\* the goroutine of execs[i] runs the closure to its return
GuardedRunCommand(i) ==
    /\ ~exited
    /\ execs[i].pc = "start"
    /\ execs' = [execs EXCEPT ![i].pc = "done",
                              ![i].msg = guardedRunCommand(execs[i].cmd, execs[i].stdin)]
    /\ UNCHANGED << uiVars, outVars, endVars, inVars, parseVars, guardVars, stdinContent,
                    streamers, stdinMsgs >>

\* Update, case commandResultMsg
GuardedUpdateCommandResult(i) ==
    /\ ~exited
    /\ execs[i].pc = "done"
    /\ LET m == guardedHandleCommandResultMsg(
                    [isProcessing |-> isProcessing, focused |-> focused,
                     errorMessage |-> errorMessage, err |-> modelErr,
                     processedOutput |-> processedOutput],
                    execs[i].msg)
       IN  /\ isProcessing' = m.isProcessing
           /\ focused' = m.focused
           /\ errorMessage' = m.errorMessage
           /\ modelErr' = m.err
           /\ processedOutput' = m.processedOutput
    /\ execs' = [execs EXCEPT ![i].pc = "delivered"]
    /\ UNCHANGED << GuardedFrame, textInput, nKeys >>

\* initModel of the guarded variant: io.ReadAll(os.Stdin)
InitGuarded ==
    /\ isTerminal = FALSE
    /\ stdinLines \in SeqsUpTo(Lines, MaxLines)
    /\ rdPos = Len(stdinLines)
    /\ streamers = 0
    /\ stdinMsgs = << >>
    /\ stdinContent = JoinLines(stdinLines)
    /\ processedOutput = stdinContent
    /\ isProcessing = FALSE
    /\ modelErr = nil
    /\ textInput = << >>
    /\ focused = TRUE
    /\ rawOutput = << >>
    /\ lastGood = << >>
    /\ errorMessage = << >>
    /\ command = << >>
    /\ quitting = FALSE
    /\ quitCmds = 0
    /\ exited = FALSE
    /\ printed = << >>
    /\ emitReq = << >>
    /\ nKeys = 0
    /\ execs = << >>
    /\ cmdStr = << >>
    /\ parsed = NotParsed

NextGuarded ==
    \/ KeyCtrlC
    \/ KeyCtrlX
    \/ GuardedKeyEnter
    \/ \E key \in GuardedKeys : GuardedKeyDefault(key)
    \/ HandleQuitMsg
    \/ \E i \in 1..Len(execs) : GuardedRunCommand(i)
    \/ \E i \in 1..Len(execs) : GuardedUpdateCommandResult(i)

SpecGuarded == InitGuarded /\ [][NextGuarded]_vars

----------------------------------------------------------------------------
(* Properties *)

InFlight(x) == x.pc \in {"start", "running", "done"}
Finished(x) == x.pc \in {"done", "delivered"}
Blank(s) == \A k \in 1..Len(s) : s[k] \in WhiteSpace

\* the quote rune of the span open after the first k runes of s ("" if none)
RECURSIVE OpenAfter(_, _)
OpenAfter(s, k) ==
    IF k = 0 THEN ""
    ELSE LET q == OpenAfter(s, k - 1) IN
         IF s[k] \in QuoteRunes
         THEN (IF q = "" THEN s[k] ELSE IF q = s[k] THEN "" ELSE q)
         ELSE q

Mismatched(s) ==
    \E k \in 1..Len(s) : s[k] \in QuoteRunes /\ OpenAfter(s, k - 1) \notin {"", s[k]}
WellQuoted(s) == ~Mismatched(s) /\ OpenAfter(s, Len(s)) = ""
UnquotedPipes(s) == { k \in 1..Len(s) : s[k] = "|" /\ OpenAfter(s, k - 1) = "" }
QuotedPipes(s) == { k \in 1..Len(s) : s[k] = "|" /\ OpenAfter(s, k - 1) # "" }

\* some stretch between two neighbouring unquoted separators (or an end of
\* the line) holds nothing but whitespace
HasEmptySegment(s) ==
    LET cuts == UnquotedPipes(s) \cup {0, Len(s) + 1} IN
    /\ UnquotedPipes(s) # {}
    /\ \E a \in cuts, b \in cuts :
          /\ a < b
          /\ \A c \in cuts : ~(a < c /\ c < b)
          /\ \A k \in (a + 1)..(b - 1) : s[k] \in WhiteSpace

ClipboardError == errorMessage # << >> /\ errorMessage[1] = "Failed to copy to clipboard: "

\* C1: once every started execution has delivered its result, the output and
\* the error message shown are those of the most recently triggered execution
C1_LastTriggeredWins ==
    (execs # << >> /\ (\A i \in 1..Len(execs) : execs[i].pc = "delivered") /\ ~ClipboardError)
    => LET x == execs[Len(execs)] IN
       IF x.kind = "Output"
       THEN rawOutput = TrimSuffix(x.msg.output) /\ errorMessage = << >>
       ELSE errorMessage = x.msg.errorMessage

\* C2: with a fixed command line, the results of the executions triggered by
\* successive chunks are handled in the order of the chunks
C2_ChunkResultsInOrder ==
    [][\A i \in 1..Len(execs) :
          (execs[i].src = "chunk" /\ execs[i].pc = "done" /\ execs'[i].pc = "delivered")
          => \A j \in (i + 1)..Len(execs) :
                (execs[j].src = "chunk" /\ execs[j].cmd = execs[i].cmd)
                => execs[j].pc # "delivered"]_vars

\* C3: at most one execution is in flight at any time
C3_AtMostOneInFlight ==
    Cardinality({ i \in 1..Len(execs) : InFlight(execs[i]) }) <= 1

\* C4: the output shown is the output of the last successful result handled,
\* less one trailing newline, or empty if there was none; a failure of any
\* kind leaves it as it was
C4_OutputIsLastGood ==
    rawOutput = (IF lastGood = << >> THEN << >> ELSE TrimSuffix(lastGood[1]))

C4_Witness ==
    /\ rawOutput # << >>
    /\ lastGood # << >> /\ lastGood[1] # rawOutput
    /\ \E i \in 1..Len(execs) :
          /\ execs[i].pc = "delivered"
          /\ execs[i].kind = "Failure"
          /\ errorMessage = execs[i].msg.errorMessage

\* C5: every line of a redirected stdin, empty lines included, is appended
\* with its newline: when ingestion has come to rest the content is the
\* concatenation of all the lines
C5_AllLinesIngested ==
    (~isTerminal /\ streamers = 0 /\ stdinMsgs = << >>)
    => stdinContent = JoinLines(stdinLines)

\* C6: an execution of an empty or whitespace-only command line spawns no
\* process and returns the stdin content it was invoked against, with no error
C6_BlankIsIdentity ==
    \A i \in 1..Len(execs) :
        Blank(execs[i].cmd)
        => /\ execs[i].stages = << >>
           /\ Finished(execs[i])
              => /\ execs[i].kind = "Output"
                 /\ execs[i].msg.output = execs[i].stdin
                 /\ execs[i].msg.errorMessage = << >>

C6_Witness ==
    \E i \in 1..Len(execs) :
        /\ execs[i].src = "key"
        /\ execs[i].cmd # << >> /\ Blank(execs[i].cmd)
        /\ execs[i].stdin # << >>
        /\ execs[i].pc = "delivered"
        /\ rawOutput = TrimSuffix(stdinContent)

\* C7: the first stage reads the stdin snapshot, each later stage reads what
\* the stage before it wrote and starts only after that stage has ended, and
\* when all stages succeed the result is the output of the last one
C7_StagesChained ==
    \A i \in 1..Len(execs) :
        LET x == execs[i]
            n == Len(x.stages)
        IN  /\ n >= 1 => x.stages[1].input = x.stdin
            /\ \A k \in 1..(n - 1) :
                  /\ x.stages[k].exited
                  /\ x.stages[k + 1].input = x.stages[k].output
            /\ (Finished(x) /\ x.kind = "Output" /\ ~Blank(x.cmd))
               => /\ n = Len(x.commands) /\ n >= 1
                  /\ \A k \in 1..n :
                        /\ x.stages[k].segment = x.commands[k]
                        /\ x.stages[k].exited /\ x.stages[k].err = nil
                  /\ x.msg.output = x.stages[n].output
                  /\ x.msg.errorMessage = << >>

C7_Witness ==
    \E i \in 1..Len(execs) :
        /\ execs[i].pc = "delivered"
        /\ execs[i].kind = "Output"
        /\ Len(execs[i].stages) >= 2
        /\ execs[i].stages[1].output # execs[i].stdin
        /\ execs[i].stages[2].input # execs[i].stdin
        /\ rawOutput = TrimSuffix(execs[i].stages[Len(execs[i].stages)].output)

\* C8: when a stage fails no later stage is spawned, and the result is a
\* failure that carries no output
C8_FailureHalts ==
    \A i \in 1..Len(execs) :
        \A k \in 1..Len(execs[i].stages) :
            (execs[i].stages[k].exited /\ execs[i].stages[k].err # nil)
            => /\ Len(execs[i].stages) = k
               /\ Finished(execs[i])
               /\ execs[i].kind = "Failure"
               /\ execs[i].msg.output = << >>
               /\ execs[i].msg.errorMessage # << >>

C8_Witness ==
    \E i \in 1..Len(execs) :
        /\ execs[i].pc = "delivered"
        /\ Len(execs[i].commands) >= 2
        /\ Len(execs[i].stages) = 1
        /\ execs[i].stages[1].err # nil
        /\ errorMessage = execs[i].msg.errorMessage
        /\ rawOutput = TrimSuffix(stdinContent)

\* C9: a non-blank command line with an empty segment (leading, middle or
\* trailing) yields the failure "missing command between pipes", never an output
C9_EmptySegmentFails ==
    \A i \in 1..Len(execs) :
        (/\ Finished(execs[i])
         /\ ~Blank(execs[i].cmd)
         /\ WellQuoted(execs[i].cmd)
         /\ HasEmptySegment(execs[i].cmd))
        => /\ execs[i].kind = "Failure"
           /\ execs[i].msg.errorMessage = <<"Syntax error: missing command between pipes">>

\* C10: for a (non-empty) command line with balanced quotes and no separator
\* inside a quoted span, parsePipedCommands returns one segment more than
\* there are unquoted separators
C10_SegmentCount ==
    (parsed.called /\ cmdStr # << >> /\ WellQuoted(cmdStr) /\ QuotedPipes(cmdStr) = {})
    => /\ parsed.err = nil
       /\ Len(parsed.commands) = Cardinality(UnquotedPipes(cmdStr)) + 1

\* the k-th unquoted separator of s from the left (0 for k = 0)
CutAt(s, k) ==
    IF k = 0 THEN 0
    ELSE CHOOSE p \in UnquotedPipes(s) :
            Cardinality({ q \in UnquotedPipes(s) : q < p }) = k - 1

\* C11: a separator inside an open quote span stays in the segment text; a
\* separator outside any span ends the segment and is discarded, and the
\* segment emitted is the text since the previous separator, trimmed
C11_QuotedPipeRetained ==
    (parsed.called /\ WellQuoted(cmdStr))
    => LET n == Cardinality(UnquotedPipes(cmdStr))
           tail == SubSeq(cmdStr, CutAt(cmdStr, n) + 1, Len(cmdStr))
       IN  /\ parsed.err = nil
           /\ Len(parsed.commands) \in {n, n + 1}
           /\ \A k \in 1..n :
                 parsed.commands[k] =
                    TrimSpace(SubSeq(cmdStr, CutAt(cmdStr, k - 1) + 1, CutAt(cmdStr, k) - 1))
           /\ Len(parsed.commands) = n + 1 => parsed.commands[n + 1] = TrimSpace(tail)
           /\ cmdStr \in ExampleLines
              => parsed.commands = << <<"grep", " ", "'", "a", "|", "b", "'">>,
                                     <<"wc", " ", "-l">> >>

C11_Witness ==
    /\ parsed.called
    /\ QuotedPipes(cmdStr) # {} /\ UnquotedPipes(cmdStr) # {}
    /\ Len(parsed.commands) = 2
    /\ \E k \in 1..Len(parsed.commands[1]) : parsed.commands[1][k] = "|"
    /\ \A k \in 1..Len(parsed.commands[2]) : parsed.commands[2][k] # "|"

\* C12: parsePipedCommands returns an error, and then no segments, exactly
\* when a quote rune other than the one that opened the span is met inside
\* the span or a span is still open at the end of the line; otherwise it
\* returns no error and (for a non-empty line) at least one segment
C12_ErrorIffBadQuotes ==
    parsed.called
    => /\ (parsed.err # nil) <=> (Mismatched(cmdStr) \/ OpenAfter(cmdStr, Len(cmdStr)) # "")
       /\ parsed.err # nil => parsed.commands = << >>
       /\ (parsed.err = nil /\ cmdStr # << >>) => Len(parsed.commands) >= 1
       /\ Mismatched(cmdStr)
          => \E k \in 1..Len(cmdStr) :
                /\ cmdStr[k] \in QuoteRunes /\ OpenAfter(cmdStr, k - 1) \notin {"", cmdStr[k]}
                /\ ~Mismatched(SubSeq(cmdStr, 1, k - 1))
                /\ parsed.err = <<"malformatted command string: mismatched quotes ",
                                  OpenAfter(cmdStr, k - 1), " & ", cmdStr[k]>>
       /\ (~Mismatched(cmdStr) /\ OpenAfter(cmdStr, Len(cmdStr)) # "")
          => parsed.err = <<"malformatted command string: unclose quote ",
                            OpenAfter(cmdStr, Len(cmdStr))>>

C12_Witness ==
    /\ parsed.called
    /\ UnquotedPipes(cmdStr) # {}
    /\ ~Mismatched(cmdStr) /\ OpenAfter(cmdStr, Len(cmdStr)) # ""
    /\ parsed.err # nil /\ parsed.commands = << >>

\* C13: every execution triggered has its one result handled by the control
\* loop unless the program ends first; a result once returned is not replaced,
\* a result once handled is not handled again, and no later trigger removes
\* or restarts an execution
C13_ExactlyOneResult ==
    /\ \A i \in 1..MaxExecs :
          (Len(execs) >= i) ~> (exited \/ (Len(execs) >= i /\ execs[i].pc = "delivered"))
    /\ [][/\ Len(execs') >= Len(execs)
          /\ \A i \in 1..Len(execs) :
                /\ execs[i].pc = "delivered" => execs'[i] = execs[i]
                /\ execs[i].pc = "done"
                   => /\ execs'[i].pc \in {"done", "delivered"}
                      /\ execs'[i].msg = execs[i].msg]_vars

C13_Witness ==
    /\ ~exited
    /\ Len(execs) = 2
    /\ execs[1].pc = "delivered" /\ execs[1].kind = "Output"
    /\ execs[2].pc = "delivered" /\ execs[2].kind = "Output"
    /\ rawOutput = TrimSuffix(execs[1].msg.output)
    /\ rawOutput # TrimSuffix(execs[2].msg.output)

\* fmt.Println of a text: the text and a newline
WriteLine(t) == t \o <<"\n">>

\* C14: nothing is written before the session has ended; after it, if an
\* exit-and-print key was handled, what has been written is the text the
\* input held when the (last) such key was handled, as one line (nothing for
\* an empty text), and if none was handled nothing has been written
C14_EmitOnCtrlX ==
    /\ ~exited => printed = << >>
    /\ exited
       => printed = (IF emitReq = << >> \/ emitReq[1] = << >> THEN << >> ELSE WriteLine(emitReq[1]))

C14_Witness ==
    /\ exited
    /\ emitReq # << >> /\ emitReq[1] # << >>
    /\ printed = WriteLine(emitReq[1])

\* C15: the step that handles Enter triggers an execution of the command
\* line then in the input against the stdin content then held
C15_EnterExecutes ==
    [][(KeyEnter /\ textInput # << >>)
       => /\ Len(execs') = Len(execs) + 1
          /\ execs'[Len(execs')].cmd = textInput
          /\ execs'[Len(execs')].stdin = stdinContent
          /\ execs'[Len(execs')].pc = "start"]_vars

\* ingestion is at rest: no streamStdin command is outstanding and no
\* stdinMsg waits to be handled
IngestAtRest == streamers = 0 /\ stdinMsgs = << >>

\* C16: the step in which Update handles the zero message of the closed
\* channel changes nothing of the model and issues no command (no chunk, no
\* execution, no error message, no further read); once ingestion is at rest
\* the stdin content never changes again; on a terminal it is always empty;
\* and the control loop accepts a key whatever the state of the stream
C16_CloseIsFinal ==
    /\ [][\A j \in 1..Len(stdinMsgs) :
            (~stdinMsgs[j].ch /\ stdinMsgs' = RemoveAt(stdinMsgs, j))
            => UNCHANGED << stdinContent, errorMessage, rawOutput, execs, streamers,
                            textInput, focused >>]_vars
    /\ [][IngestAtRest => (IngestAtRest' /\ stdinContent' = stdinContent)]_vars
    /\ [](isTerminal => stdinContent = << >>)
    /\ []((~exited /\ nKeys < MaxKeys) => ENABLED KeyTab)

C16_Witness ==
    /\ ~isTerminal /\ chClosed /\ IngestAtRest
    /\ stdinContent # << >> /\ stdinContent = JoinLines(stdinLines)
    /\ errorMessage = << >>
    /\ \E i \in 1..Len(execs) :
          /\ execs[i].src = "key" /\ execs[i].stdin = stdinContent
          /\ execs[i].pc = "delivered"
    /\ \A i \in 1..Len(execs) : execs[i].src = "chunk" => execs[i].stdin # << >>

\* the messages of a command line that cannot be parsed or tokenized
ParseFailure(msg) ==
    /\ msg.errorMessage # << >>
    /\ msg.errorMessage[1] \in { "malformatted command string: unclose quote ",
                                  "malformatted command string: mismatched quotes ",
                                  "Syntax error: missing command between pipes",
                                  "Failed to parse command " }

\* C19: an execution that fails with a quote error, a missing command
\* between pipes or a segment that cannot be tokenized has spawned no stage
\* process at all
C19_NoStageOnParseError ==
    \A i \in 1..Len(execs) :
        (Finished(execs[i]) /\ execs[i].kind = "Failure" /\ ParseFailure(execs[i].msg))
        => execs[i].stages = << >>

\* C20: every step that changes the text of the input triggers an execution
\* of the new text against the stdin content held
C20_EditTriggers ==
    [][textInput' # textInput
       => /\ Len(execs') = Len(execs) + 1
          /\ execs'[Len(execs')].cmd = textInput'
          /\ execs'[Len(execs')].stdin = stdinContent
          /\ execs'[Len(execs')].pc = "start"]_vars

\* C17: in the guarded variant isProcessing is set exactly while an
\* execution is in flight and at most one is; Enter while it is set starts
\* nothing and changes nothing; the handling of a result, success or failure,
\* clears it, and Enter while it is clear starts an execution
C17_GuardBlocksReentry ==
    /\ [](/\ Cardinality({ i \in 1..Len(execs) : execs[i].pc # "delivered" }) <= 1
          /\ isProcessing <=> (\E i \in 1..Len(execs) : execs[i].pc # "delivered"))
    /\ [][(GuardedKeyEnter /\ isProcessing)
          => UNCHANGED << textInput, focused, stdinContent, processedOutput, errorMessage,
                          modelErr, isProcessing, command, quitting, quitCmds, execs >>]_vars
    /\ [][\A i \in 1..Len(execs) :
            (execs[i].pc = "done" /\ execs'[i].pc = "delivered") => ~isProcessing']_vars
    /\ [][(GuardedKeyEnter /\ ~isProcessing)
          => /\ isProcessing'
             /\ Len(execs') = Len(execs) + 1
             /\ execs'[Len(execs')].cmd = textInput
             /\ execs'[Len(execs')].stdin = stdinContent]_vars

C17_Witness ==
    /\ Len(execs) = 2
    /\ execs[1].pc = "delivered" /\ execs[1].msg.rawError # nil
    /\ execs[2].pc = "start"
    /\ isProcessing /\ ~focused

\* C18: in the guarded variant the handling of a result with a non-empty
\* errorMessage shows that message and leaves processedOutput as it was
C18_ErrorNeverBlanks ==
    [][\A i \in 1..Len(execs) :
          (/\ execs[i].pc = "done" /\ execs'[i].pc = "delivered"
           /\ execs[i].msg.errorMessage # << >>)
          => /\ errorMessage' = execs[i].msg.errorMessage
             /\ processedOutput' = processedOutput]_vars

\* the result of the pipeline of command line cmd applied to the text stdin
PipelineResult(cmd, stdin) == runToReturn(runCommandBegin(NewExec(cmd, stdin, "key"))).msg

StageFailed(x) ==
    /\ Finished(x) /\ x.kind = "Failure"
    /\ x.stages # << >>
    /\ x.stages[Len(x.stages)].exited /\ x.stages[Len(x.stages)].err # nil

\* the finished execution of command line cmd on the text stdin
Executed(cmd, stdin) == runToReturn(runCommandBegin(NewExec(cmd, stdin, "key")))

\* C22: when stage k fails the message is "Error: Command '<segment k>'
\* failed. " followed by the trimmed stderr text of the stage, or by its
\* error text if stderr is empty, and the result tells k: no other failing
\* stage index goes with the same result (here: of the command lines got by
\* dropping leading text of this one, run on the same stdin content)
C22_FailureNamesStage ==
    \A i \in 1..Len(execs) :
        StageFailed(execs[i])
        => LET x == execs[i]
               k == Len(x.stages)
               r == RunProgram(x.stages[k].parts, x.stages[k].input)
           IN  /\ x.stages[k].segment = TrimSpace(x.commands[k])
               /\ x.msg.errorMessage =
                      <<"Error: Command '">> \o x.stages[k].segment \o <<"' failed. ">>
                          \o (IF r.stderr # << >> THEN TrimSpace(r.stderr) ELSE r.err)
               /\ \A n \in 1..Len(x.cmd) :
                      LET y == Executed(SubSeq(x.cmd, n, Len(x.cmd)), x.stdin) IN
                      (StageFailed(y) /\ y.msg = x.msg) => Len(y.stages) = k

\* C23: a step in which an execution runs or its result is handled leaves
\* the stdin content and the text of the input as they were; the stdin
\* content changes only when Update handles a stdinMsg, and the text of the
\* input only when a key message is handled
C23_ExecutionFrame ==
    [][/\ (\E i \in 1..Len(execs) : execs'[i].pc # execs[i].pc)
          => UNCHANGED << stdinContent, textInput >>
       /\ stdinContent' # stdinContent
          => \E j \in 1..Len(stdinMsgs) :
                /\ stdinMsgs' = RemoveAt(stdinMsgs, j)
                /\ stdinContent' = stdinContent \o stdinMsgs[j].line \o <<"\n">>
       /\ textInput' # textInput => nKeys' = nKeys + 1]_vars

C23_Witness ==
    /\ stdinContent # << >> /\ textInput # << >>
    /\ \E i \in 1..Len(execs) :
          /\ execs[i].pc = "delivered" /\ execs[i].kind = "Output"
          /\ execs[i].stdin = stdinContent
    /\ \E i \in 1..Len(execs) :
          /\ execs[i].pc = "delivered" /\ execs[i].kind = "Failure"
          /\ execs[i].cmd = textInput /\ execs[i].stdin = stdinContent

\* the stdin content is exactly the first k lines, each with its newline
Ingested(k) ==
    /\ k \in 0..Len(stdinLines)
    /\ stdinContent = JoinLines(SubSeq(stdinLines, 1, k))

\* stdin reads outstanding: streamStdin commands waiting on the channel and
\* messages they produced that Update has not handled yet
Outstanding == streamers + Len(stdinMsgs)

\* the stdin content is a prefix of the lines that never shrinks, and at most
\* one read is outstanding
PrefixOfLines ==
    /\ [](Outstanding <= 1 /\ \E k \in 0..Len(stdinLines) : Ingested(k))
    /\ [][\A k \in 0..Len(stdinLines) :
            Ingested(k) => \E n \in k..Len(stdinLines) : Ingested(n)']_vars

\* C24: the stdin content is always the concatenation of the first k lines,
\* each followed by a newline, for a k that never decreases; at most one
\* stdin read is outstanding at any time, and every chunk (a line read from
\* stdin) that Update handles re-arms exactly one read
C24_AppendOnlyInOrder ==
    /\ PrefixOfLines
    /\ [][\A j \in 1..Len(stdinMsgs) :
            (stdinMsgs[j].ch /\ stdinMsgs' = RemoveAt(stdinMsgs, j))
            => streamers' = streamers + 1]_vars

\* readStdin is blocked in ch <- on a line it has scanned
ReaderBlocked == ~isTerminal /\ rdPos < Len(stdinLines)

\* C25: while the application runs, the reader of a redirected stdin is never
\* left blocked on sending a line that no streamStdin will ever receive:
\* as long as it has a line to send, a read is outstanding (only the handling
\* of an outstanding read issues the next one), so it goes on to read every
\* line and close the channel
C25_ReaderNeverStuck ==
    (~exited /\ quitCmds = 0 /\ ReaderBlocked) => Outstanding >= 1

====
